---------------------------- MODULE Spec2Model ----------------------------
(***************************************************************************)
(* Model of the chakra chat node (src/main.rs): the startup sequence of    *)
(* main and its select! loop over the fused stdin line stream and the      *)
(* swarm event stream.                                                     *)
(*                                                                         *)
(* Program state: the position of main (pc, exit), the local               *)
(* connection_established flag, the floodsub partial view that             *)
(* add_node_to_partial_view writes, and whether the fused stdin stream has *)
(* terminated.  The calls an iteration makes on its collaborators          *)
(* (swarm.dial, floodsub.publish, println!/print_prompt) are recorded in   *)
(* `last`, the observation of the most recent iteration, together with the *)
(* flag and the view as they were when the iteration began; `prev` is the  *)
(* observation of the iteration before it.                                 *)
(*                                                                         *)
(* subscription and listening are what startup left in the floodsub and    *)
(* the swarm; first_ping is the peer of the first ping event handled.      *)
(* stdin_ready is the line the user has typed that the stream has not yet  *)
(* yielded; link and remote are the connection to a second node and that   *)
(* node's own loop state.  Spec leaves these last three alone: there a     *)
(* line arrives and is taken by select! in one step, and the swarm's       *)
(* events are unconstrained.                                               *)
(***************************************************************************)
EXTENDS Integers, Sequences, FiniteSets

VARIABLES pc, exit, connection_established, partial_view, stdin_done,
          last, prev, subscription, listening, first_ping,
          stdin_ready, link, remote

vars == <<pc, exit, connection_established, partial_view, stdin_done,
          last, prev, subscription, listening, first_ping,
          stdin_ready, link, remote>>

\* What startup leaves behind and the loop never writes.
startup_vars == <<subscription, listening>>

\* The typed line not yet yielded, and the second node.
world_vars == <<stdin_ready, link, remote>>

(***************************************************************************)
(* Bounds and data.                                                        *)
(***************************************************************************)
\* Number of remote peers whose events the swarm can deliver.
NumPeers == 3

Peers == 1..NumPeers

\* PeerId::from(local_key.public()): the node's own identity.
local_peer_id == 0

\* Topic::new("chakra-chat")
topic == "chakra-chat"

\* Lines the user can type: the empty line, chat text, and multiaddr texts
\* (two spellings of the same address, a second address, two malformed ones).
Lines == {"", "hi", "/tcp/1", "/tcp/01", "/tcp/2", "/", "tcp/1"}

\* Payloads a FloodsubMessage can carry: "", "hi", "e-acute" (two bytes),
\* a lone 0xFF, and "h" followed by a truncated two-byte sequence.
Payloads == {<<>>, <<104, 105>>, <<195, 169>>, <<255>>, <<104, 195>>}

PingResults == {"Success", "Failure"}

Ok(v) == [ok |-> TRUE, val |-> v]
Err == [ok |-> FALSE, val |-> <<>>]

(***************************************************************************)
(* line.parse::<Multiaddr>(): the text is split at '/', must start with    *)
(* '/', and each protocol with its argument becomes one component; the     *)
(* port of /tcp is read as a number, so "/tcp/1" and "/tcp/01" denote the  *)
(* same address.  The empty text is the empty multiaddr.                   *)
(***************************************************************************)
Tcp(port) == <<[proto |-> "tcp", port |-> port]>>

parse(line) ==
    CASE line = ""        -> Ok(<<>>)
      [] line = "/tcp/1"  -> Ok(Tcp(1))
      [] line = "/tcp/01" -> Ok(Tcp(1))
      [] line = "/tcp/2"  -> Ok(Tcp(2))
      [] OTHER            -> Err

\* line.as_bytes(): the UTF-8 bytes of the line.
as_bytes(line) ==
    CASE line = ""        -> <<>>
      [] line = "hi"      -> <<104, 105>>
      [] line = "/tcp/1"  -> <<47, 116, 99, 112, 47, 49>>
      [] line = "/tcp/01" -> <<47, 116, 99, 112, 47, 48, 49>>
      [] line = "/tcp/2"  -> <<47, 116, 99, 112, 47, 50>>
      [] line = "/"       -> <<47>>
      [] line = "tcp/1"   -> <<116, 99, 112, 47, 49>>

(***************************************************************************)
(* str::from_utf8(&data): Ok(text) when the bytes are well-formed UTF-8    *)
(* (the text is the same bytes), Err otherwise.                            *)
(***************************************************************************)
Cont(b) == b >= 128 /\ b <= 191

RECURSIVE valid_utf8(_)
valid_utf8(s) ==
    IF s = <<>> THEN TRUE
    ELSE LET n == Len(s)
             b == s[1]
             rest(k) == SubSeq(s, k + 1, n)
         IN  CASE b <= 127 -> valid_utf8(rest(1))
               [] b >= 194 /\ b <= 223 ->
                    n >= 2 /\ Cont(s[2]) /\ valid_utf8(rest(2))
               [] b = 224 ->
                    n >= 3 /\ s[2] >= 160 /\ s[2] <= 191 /\ Cont(s[3])
                    /\ valid_utf8(rest(3))
               [] (b >= 225 /\ b <= 236) \/ b = 238 \/ b = 239 ->
                    n >= 3 /\ Cont(s[2]) /\ Cont(s[3]) /\ valid_utf8(rest(3))
               [] b = 237 ->
                    n >= 3 /\ s[2] >= 128 /\ s[2] <= 159 /\ Cont(s[3])
                    /\ valid_utf8(rest(3))
               [] b = 240 ->
                    n >= 4 /\ s[2] >= 144 /\ s[2] <= 191 /\ Cont(s[3])
                    /\ Cont(s[4]) /\ valid_utf8(rest(4))
               [] b >= 241 /\ b <= 243 ->
                    n >= 4 /\ Cont(s[2]) /\ Cont(s[3]) /\ Cont(s[4])
                    /\ valid_utf8(rest(4))
               [] b = 244 ->
                    n >= 4 /\ s[2] >= 128 /\ s[2] <= 143 /\ Cont(s[3])
                    /\ Cont(s[4]) /\ valid_utf8(rest(4))
               [] OTHER -> FALSE

from_utf8(data) == IF valid_utf8(data) THEN Ok(data) ELSE Err

(***************************************************************************)
(* Events of the two sources, and what an iteration is observed to do.     *)
(***************************************************************************)
StdinLine(line) == [kind |-> "Line", line |-> line]
StdinErr == [kind |-> "ReadError"]
NewListenAddr == [kind |-> "NewListenAddr"]
PingEvent(peer, result) == [kind |-> "Ping", peer |-> peer, result |-> result]
Subscribed(peer_id) == [kind |-> "Subscribed", peer |-> peer_id]
Message(source, data) == [kind |-> "Message", peer |-> source, data |-> data]
OtherEvent == [kind |-> "Other"]

\* format_prompt(peer_id, color): the prompt names the peer it is given.
format_prompt(peer_id) == [kind |-> "prompt", peer |-> peer_id]

\* print_prompt(local_peer_id): one prompt written and flushed.
print_prompt == <<format_prompt(local_peer_id)>>

\* println!("\r{}{}", format_prompt(source, ..), text)
MessageLine(source, text) ==
    [kind |-> "message", prompt |-> format_prompt(source), text |-> text]

\* The observation of one iteration handling event ev: the flag and the view
\* at its start, whether a typed line was waiting in stdin then, and the dial
\* requests, publishes and output it made.
Obs(ev, dialed, published, output) ==
    [event |-> ev,
     pre_established |-> connection_established,
     pre_view |-> partial_view,
     pre_line_ready |-> stdin_ready # <<>>,
     dialed |-> dialed,
     published |-> published,
     output |-> output]

NoObs ==
    [event |-> [kind |-> "None"],
     pre_established |-> FALSE,
     pre_view |-> {},
     pre_line_ready |-> FALSE,
     dialed |-> <<>>,
     published |-> <<>>,
     output |-> <<>>]

Observe(ev, dialed, published, output) ==
    /\ last' = Obs(ev, dialed, published, output)
    /\ prev' = last

\* swarm.dial(addr) as a recorded request with its result.
DialRequest(addr, dial_ok) == [addr |-> addr, ok |-> dial_ok]

\* floodsub.publish(topic, data): sent to the peers of the partial view.
PublishRequest(t, data) == [topic |-> t, data |-> data, targets |-> partial_view]

\* The iteration ends and the loop goes round again.
Continue == pc' = pc /\ exit' = exit

\* main returns Err, calls process::exit or unwinds: the process ends, for the
\* given reason.
Terminate(status) == pc' = "done" /\ exit' = status


(***************************************************************************)
(* Startup: main up to the loop.                                           *)
(***************************************************************************)
\* The second node: a fresh instance of the same program, already in its loop.
RemoteInit ==
    [pc |-> "loop",
     connection_established |-> FALSE,
     partial_view |-> {},
     event |-> "None",
     published |-> <<>>]

Init ==
    /\ pc = "transport"
    /\ exit = "none"
    /\ connection_established = FALSE
    /\ partial_view = {}
    /\ stdin_done = FALSE
    /\ last = NoObs
    /\ prev = NoObs
    /\ subscription = "none"
    /\ listening = FALSE
    /\ first_ping = <<>>
    /\ stdin_ready = <<>>
    /\ link = "none"
    /\ remote = RemoteInit

\* libp2p::development_transport(local_key).await?
BuildTransport ==
    /\ pc = "transport"
    /\ \E transport_ok \in BOOLEAN :
          IF transport_ok THEN pc' = "subscribe" /\ exit' = exit
          ELSE Terminate("transport_error")
    /\ UNCHANGED <<connection_established, partial_view, stdin_done, last, prev>>
    /\ UNCHANGED <<startup_vars, first_ping, world_vars>>

\* Variant of Subscribe: the result of subscribe is not tested, startup goes on.
Subscribe_IgnoresResult ==
    /\ pc = "subscribe"
    /\ \E subscribed \in BOOLEAN :
          /\ subscription' = IF subscribed THEN "accepted" ELSE "rejected"
          /\ pc' = "listen" /\ exit' = exit
    /\ UNCHANGED <<connection_established, partial_view, stdin_done, last, prev>>
    /\ UNCHANGED <<listening, first_ping, world_vars>>

\* if !floodsub.subscribe(topic.clone()) { error!(..); process::exit(1); }
Subscribe ==
    /\ pc = "subscribe"
    /\ \E subscribed \in BOOLEAN :
          /\ subscription' = IF subscribed THEN "accepted" ELSE "rejected"
          /\ IF ~subscribed THEN Terminate("exit1")
             ELSE pc' = "listen" /\ exit' = exit
    /\ UNCHANGED <<connection_established, partial_view, stdin_done, last, prev>>
    /\ UNCHANGED <<listening, first_ping, world_vars>>

\* swarm.listen_on(ADDRESS.parse()?)?
Listen ==
    /\ pc = "listen"
    /\ \E listen_ok \in BOOLEAN :
          /\ listening' = listen_ok
          /\ IF listen_ok THEN pc' = "loop" /\ exit' = exit
             ELSE Terminate("listen_error")
    /\ UNCHANGED <<connection_established, partial_view, stdin_done, last, prev>>
    /\ UNCHANGED <<subscription, first_ping, world_vars>>

(***************************************************************************)
(* The stdin arm of select!.                                               *)
(***************************************************************************)
\* Variant of ReadErrorArm: the read error is propagated with `?`.
ReadErrorArm_Propagates ==
    /\ Observe(StdinErr, <<>>, <<>>, <<>>)
    /\ Terminate("read_error")
    /\ UNCHANGED <<connection_established, partial_view>>

\* Err(_) => { warn!(..); continue; }
ReadErrorArm ==
    /\ Observe(StdinErr, <<>>, <<>>, <<>>)
    /\ Continue
    /\ UNCHANGED <<connection_established, partial_view>>

\* Variant of ParseFailureArm: the parse error is propagated with `?` instead
\* of being matched, so main returns.
ParseFailureArm_Propagates(line) ==
    /\ Observe(StdinLine(line), <<>>, <<>>, <<>>)
    /\ Terminate("parse_error")
    /\ UNCHANGED <<connection_established, partial_view>>

\* Err(_) => { warn!("Entered string is not an address, try again!"); continue; }
ParseFailureArm(line) ==
    /\ Observe(StdinLine(line), <<>>, <<>>, <<>>)
    /\ Continue
    /\ UNCHANGED <<connection_established, partial_view>>

\* Variant of DialArm: the `continue` after the dial is missing, so the line
\* falls through to the prompt and the publish.
DialArm_FallsThrough(line, addr) ==
    /\ \E dial_ok \in BOOLEAN :
          IF dial_ok
          THEN /\ Observe(StdinLine(line), <<DialRequest(addr, dial_ok)>>,
                          <<PublishRequest(topic, as_bytes(line))>>, print_prompt)
               /\ Continue
          ELSE /\ Observe(StdinLine(line), <<DialRequest(addr, dial_ok)>>,
                          <<>>, <<>>)
               /\ Terminate("dial_error")
    /\ UNCHANGED <<connection_established, partial_view>>

\* swarm.dial(addr)?; info!(..); continue;
DialArm(line, addr) ==
    /\ \E dial_ok \in BOOLEAN :
          /\ Observe(StdinLine(line), <<DialRequest(addr, dial_ok)>>, <<>>, <<>>)
          /\ IF dial_ok THEN Continue ELSE Terminate("dial_error")
    /\ UNCHANGED <<connection_established, partial_view>>

\* Variant of PublishArm: an empty line is not published.
PublishArm_SkipsEmpty(line) ==
    /\ IF line = ""
       THEN Observe(StdinLine(line), <<>>, <<>>, print_prompt)
       ELSE Observe(StdinLine(line), <<>>,
                    <<PublishRequest(topic, as_bytes(line))>>, print_prompt)
    /\ Continue
    /\ UNCHANGED <<connection_established, partial_view>>

\* print_prompt(local_peer_id).await; ...floodsub.publish(topic.clone(), line.as_bytes());
PublishArm(line) ==
    /\ Observe(StdinLine(line), <<>>,
               <<PublishRequest(topic, as_bytes(line))>>, print_prompt)
    /\ Continue
    /\ UNCHANGED <<connection_established, partial_view>>

\* Variant of LineArm: the line is parsed before the flag is tested, so an
\* address is dialled in either mode.
LineArm_ParsesFirst(line) ==
    LET addr == parse(line)
    IN  IF addr.ok THEN DialArm(line, addr.val)
        ELSE IF ~connection_established THEN ParseFailureArm(line)
        ELSE PublishArm(line)

\* The body of the stdin arm for a line that was read.
LineArm(line) ==
    IF ~connection_established
    THEN LET addr == parse(line)
         IN  IF addr.ok THEN DialArm(line, addr.val)
             ELSE ParseFailureArm(line)
    ELSE PublishArm(line)

\* line = stdin.select_next_some() yields Ok(line).
StdinLineReady ==
    /\ pc = "loop"
    /\ ~stdin_done
    /\ \E line \in Lines : LineArm(line)
    /\ UNCHANGED <<stdin_done, startup_vars, first_ping, world_vars>>

\* line = stdin.select_next_some() yields Err(_).
StdinReadError ==
    /\ pc = "loop"
    /\ ~stdin_done
    /\ ReadErrorArm
    /\ UNCHANGED <<stdin_done, startup_vars, first_ping, world_vars>>

\* The line stream ends: Fuse marks it terminated, select_next_some stays
\* pending and select! polls only the swarm from then on.  No arm runs.
StdinEof ==
    /\ pc = "loop"
    /\ ~stdin_done
    /\ stdin_done' = TRUE
    /\ UNCHANGED <<pc, exit, connection_established, partial_view, last, prev>>
    /\ UNCHANGED <<startup_vars, first_ping, world_vars>>

(***************************************************************************)
(* The swarm arm of select!.                                               *)
(***************************************************************************)
\* SwarmEvent::NewListenAddr { address, .. } => info!(..)
NewListenAddrArm ==
    /\ Observe(NewListenAddr, <<>>, <<>>, <<>>)
    /\ Continue
    /\ UNCHANGED <<connection_established, partial_view>>

\* Variant of PingArm: the assignment connection_established = true is missing.
PingArm_FlagNotSet(peer, result) ==
    /\ Observe(PingEvent(peer, result), <<>>, <<>>, <<>>)
    /\ Continue
    /\ IF ~connection_established
       THEN /\ partial_view' = partial_view \cup {peer}
            /\ connection_established' = connection_established
       ELSE UNCHANGED <<connection_established, partial_view>>

\* Variant of PingArm: the peer is added to the view on every ping event, not
\* only while the flag is false.
PingArm_AddsEveryPeer(peer, result) ==
    /\ Observe(PingEvent(peer, result), <<>>, <<>>, <<>>)
    /\ Continue
    /\ partial_view' = partial_view \cup {peer}
    /\ connection_established' = TRUE

\* Variant of PingArm: the flag follows the result of each probe.
PingArm_FlagFromResult(peer, result) ==
    /\ Observe(PingEvent(peer, result), <<>>, <<>>, <<>>)
    /\ Continue
    /\ partial_view' = IF ~connection_established
                       THEN partial_view \cup {peer} ELSE partial_view
    /\ connection_established' = (result = "Success")

\* Variant of PingArm: the view is replaced by the peer of each ping event.
PingArm_ReplacesView(peer, result) ==
    /\ Observe(PingEvent(peer, result), <<>>, <<>>, <<>>)
    /\ Continue
    /\ partial_view' = {peer}
    /\ connection_established' = TRUE

\* Variant of PingArm: the call add_node_to_partial_view(peer) is missing.
PingArm_ViewNotUpdated(peer, result) ==
    /\ Observe(PingEvent(peer, result), <<>>, <<>>, <<>>)
    /\ Continue
    /\ partial_view' = partial_view
    /\ connection_established' = TRUE

\* Variant of PingArm: the node's own id is added to the view instead of the
\* peer's.
PingArm_AddsLocalPeer(peer, result) ==
    /\ Observe(PingEvent(peer, result), <<>>, <<>>, <<>>)
    /\ Continue
    /\ IF ~connection_established
       THEN /\ partial_view' = partial_view \cup {local_peer_id}
            /\ connection_established' = TRUE
       ELSE UNCHANGED <<connection_established, partial_view>>

\* OutEvent::Ping(PingEvent { peer, .. }) => if !connection_established {
\*     add_node_to_partial_view(peer); connection_established = true; }
PingArm(peer, result) ==
    /\ Observe(PingEvent(peer, result), <<>>, <<>>, <<>>)
    /\ Continue
    /\ IF ~connection_established
       THEN /\ partial_view' = partial_view \cup {peer}
            /\ connection_established' = TRUE
       ELSE UNCHANGED <<connection_established, partial_view>>

\* Variant of SubscribedArm: the subscribing peer is added to the view.
SubscribedArm_AddsPeer(peer_id) ==
    /\ Observe(Subscribed(peer_id), <<>>, <<>>, print_prompt)
    /\ Continue
    /\ partial_view' = partial_view \cup {peer_id}
    /\ connection_established' = connection_established

\* FloodsubEvent::Subscribed { peer_id, .. } => { info!(..); print_prompt(..) }
SubscribedArm(peer_id) ==
    /\ Observe(Subscribed(peer_id), <<>>, <<>>, print_prompt)
    /\ Continue
    /\ UNCHANGED <<connection_established, partial_view>>

\* Variant of MessageArm: the message is printed under the local prompt.
MessageArm_LocalPrompt(source, data) ==
    LET text == from_utf8(data)
    IN  /\ IF text.ok
           THEN /\ Observe(Message(source, data), <<>>, <<>>,
                           <<MessageLine(local_peer_id, text.val)>> \o print_prompt)
                /\ Continue
           ELSE /\ Observe(Message(source, data), <<>>, <<>>, <<>>)
                /\ Terminate("panic")
        /\ UNCHANGED <<connection_established, partial_view>>

\* Variant of MessageArm: the source of a message is added to the view.
MessageArm_AddsSource(source, data) ==
    LET text == from_utf8(data)
    IN  /\ IF text.ok
           THEN /\ Observe(Message(source, data), <<>>, <<>>,
                           <<MessageLine(source, text.val)>> \o print_prompt)
                /\ Continue
           ELSE /\ Observe(Message(source, data), <<>>, <<>>, <<>>)
                /\ Terminate("panic")
        /\ partial_view' = partial_view \cup {source}
        /\ connection_established' = connection_established

\* FloodsubEvent::Message(FloodsubMessage { data, source, .. }) =>
\*     println!(.., format_prompt(source, ..), str::from_utf8(&data).unwrap());
\*     print_prompt(local_peer_id).await;
MessageArm(source, data) ==
    LET text == from_utf8(data)
    IN  /\ IF text.ok
           THEN /\ Observe(Message(source, data), <<>>, <<>>,
                           <<MessageLine(source, text.val)>> \o print_prompt)
                /\ Continue
           ELSE /\ Observe(Message(source, data), <<>>, <<>>, <<>>)
                /\ Terminate("panic")
        /\ UNCHANGED <<connection_established, partial_view>>

\* _ => {}
OtherArm ==
    /\ Observe(OtherEvent, <<>>, <<>>, <<>>)
    /\ Continue
    /\ UNCHANGED <<connection_established, partial_view>>

\* The peer of the first ping event handled, once peer's event is handled.
FirstPing(peer) == IF first_ping = <<>> THEN <<peer>> ELSE first_ping

SwarmNewListenAddr ==
    /\ pc = "loop"
    /\ NewListenAddrArm
    /\ UNCHANGED <<stdin_done, startup_vars, first_ping, world_vars>>

SwarmPing ==
    /\ pc = "loop"
    /\ \E peer \in Peers, result \in PingResults :
          /\ PingArm(peer, result)
          /\ first_ping' = FirstPing(peer)
    /\ UNCHANGED <<stdin_done, startup_vars, world_vars>>

SwarmSubscribed ==
    /\ pc = "loop"
    /\ \E peer_id \in Peers : SubscribedArm(peer_id)
    /\ UNCHANGED <<stdin_done, startup_vars, first_ping, world_vars>>

SwarmMessage ==
    /\ pc = "loop"
    /\ \E source \in Peers, data \in Payloads : MessageArm(source, data)
    /\ UNCHANGED <<stdin_done, startup_vars, first_ping, world_vars>>

SwarmOther ==
    /\ pc = "loop"
    /\ OtherArm
    /\ UNCHANGED <<stdin_done, startup_vars, first_ping, world_vars>>

Next ==
    \/ BuildTransport
    \/ Subscribe
    \/ Listen
    \/ StdinLineReady
    \/ StdinReadError
    \/ StdinEof
    \/ SwarmNewListenAddr
    \/ SwarmPing
    \/ SwarmSubscribed
    \/ SwarmMessage
    \/ SwarmOther

Spec == Init /\ [][Next]_vars

\* The executor keeps polling main: while an event is ready, an iteration runs.
FairSpec == Spec /\ WF_vars(Next)


(***************************************************************************)
(* The two sources apart: the user types a line, which waits in stdin      *)
(* until select! takes it, while swarm events go on being handled.         *)
(***************************************************************************)
\* The user types a line; the stream holds it until the loop polls stdin.
UserTypes ==
    /\ pc # "done"
    /\ ~stdin_done
    /\ stdin_ready = <<>>
    /\ \E line \in Lines : stdin_ready' = <<line>>
    /\ UNCHANGED <<pc, exit, connection_established, partial_view, stdin_done,
                   last, prev, startup_vars, first_ping, link, remote>>

\* line = stdin.select_next_some() yields the waiting line.
TypedLineReady ==
    /\ pc = "loop"
    /\ ~stdin_done
    /\ stdin_ready # <<>>
    /\ LineArm(stdin_ready[1])
    /\ stdin_ready' = <<>>
    /\ UNCHANGED <<stdin_done, startup_vars, first_ping, link, remote>>

\* A read error, or the end of input, once no typed line is waiting.
TypedReadError == stdin_ready = <<>> /\ StdinReadError

TypedEof == stdin_ready = <<>> /\ StdinEof

InterleavedNext ==
    \/ BuildTransport
    \/ Subscribe
    \/ Listen
    \/ UserTypes
    \/ TypedLineReady
    \/ TypedReadError
    \/ TypedEof
    \/ SwarmNewListenAddr
    \/ SwarmPing
    \/ SwarmSubscribed
    \/ SwarmMessage
    \/ SwarmOther

InterleavedSpec == Init /\ [][InterleavedNext]_vars

(***************************************************************************)
(* Two fresh nodes and nobody else.  The local node is the program above;  *)
(* the remote node runs the same loop, kept in `remote`.  Ping and         *)
(* Subscribed events name the other node and exist only once the two are   *)
(* connected.  A publish is recorded with the peers it targets; delivery   *)
(* of the published bytes is not modelled.                                 *)
(***************************************************************************)
\* The remote node as the local swarm names it, and the two listen addresses.
remote_peer_id == CHOOSE p \in Peers : \A q \in Peers : p <= q
remote_addr == Tcp(1)
local_addr == Tcp(2)

\* The last iteration's dial reached the remote node.
DialledRemote(obs) ==
    /\ obs.dialed # <<>>
    /\ obs.dialed[1].ok
    /\ obs.dialed[1].addr = remote_addr
    /\ remote.pc = "loop"

\* The Ping arm, run by the remote node.
RemotePingArm(peer, result) ==
    IF ~remote.connection_established
    THEN [remote EXCEPT !.event = "Ping", !.published = <<>>,
                        !.partial_view = @ \cup {peer},
                        !.connection_established = TRUE]
    ELSE [remote EXCEPT !.event = "Ping", !.published = <<>>]

\* The stdin arm, run by the remote node on a line that was read.
RemoteLineArm(line, dial_ok) ==
    IF ~remote.connection_established
    THEN LET addr == parse(line)
         IN  IF addr.ok /\ ~dial_ok
             THEN [remote EXCEPT !.pc = "done", !.event = "Line",
                                 !.published = <<>>]
             ELSE [remote EXCEPT !.event = "Line", !.published = <<>>]
    ELSE [remote EXCEPT !.event = "Line",
                        !.published = <<[topic |-> topic,
                                         data |-> as_bytes(line),
                                         targets |-> remote.partial_view]>>]

\* The local user's line is handled; a successful dial of the remote address
\* connects the two nodes.
HsLocalLine ==
    /\ pc = "loop"
    /\ ~stdin_done
    /\ \E line \in Lines : LineArm(line)
    /\ link' = IF DialledRemote(last') THEN "connected" ELSE link
    /\ UNCHANGED <<stdin_done, startup_vars, first_ping, stdin_ready, remote>>

\* The local swarm delivers a ping event for the remote node.
HsLocalPing ==
    /\ pc = "loop"
    /\ link = "connected"
    /\ \E result \in PingResults : PingArm(remote_peer_id, result)
    /\ first_ping' = FirstPing(remote_peer_id)
    /\ UNCHANGED <<stdin_done, startup_vars, world_vars>>

\* The local swarm delivers the remote node's subscription.
HsLocalSubscribed ==
    /\ pc = "loop"
    /\ link = "connected"
    /\ SubscribedArm(remote_peer_id)
    /\ UNCHANGED <<stdin_done, startup_vars, first_ping, world_vars>>

\* The remote swarm delivers a ping event for the local node.
HsRemotePing ==
    /\ remote.pc = "loop"
    /\ link = "connected"
    /\ \E result \in PingResults :
          remote' = RemotePingArm(local_peer_id, result)
    /\ UNCHANGED <<pc, exit, connection_established, partial_view, stdin_done,
                   last, prev, startup_vars, first_ping, stdin_ready, link>>

\* The remote user's line is handled; a successful dial of the local address
\* connects the two nodes.
HsRemoteLine ==
    /\ remote.pc = "loop"
    /\ \E line \in Lines, dial_ok \in BOOLEAN :
          /\ remote' = RemoteLineArm(line, dial_ok)
          /\ link' = IF /\ ~remote.connection_established
                        /\ parse(line) = Ok(local_addr)
                        /\ dial_ok /\ pc = "loop" /\ listening
                     THEN "connected" ELSE link
    /\ UNCHANGED <<pc, exit, connection_established, partial_view, stdin_done,
                   last, prev, startup_vars, first_ping, stdin_ready>>

HandshakeNext ==
    \/ BuildTransport
    \/ Subscribe
    \/ Listen
    \/ HsLocalLine
    \/ StdinReadError
    \/ StdinEof
    \/ SwarmNewListenAddr
    \/ SwarmOther
    \/ HsLocalPing
    \/ HsLocalSubscribed
    \/ HsRemotePing
    \/ HsRemoteLine

\* Each node's swarm goes on delivering ping events for a connected peer, and
\* the node's loop handles them.
HandshakeSpec ==
    /\ Init
    /\ [][HandshakeNext]_vars
    /\ WF_vars(HsLocalPing)
    /\ WF_vars(HsRemotePing)

(***************************************************************************)
(* Properties of the loop.                                                 *)
(***************************************************************************)
\* The last iteration handled a line typed while the flag was false.
LineWhileNotEstablished ==
    last.event.kind = "Line" /\ ~last.pre_established

\* The last iteration left the flag and the view as it found them.
FlagAndViewUnchanged ==
    /\ connection_established = last.pre_established
    /\ partial_view = last.pre_view

\* C1: starting from a false flag, handling a liveness event that reports a
\* failed or timed-out probe leaves the flag false and adds no peer to the
\* view.
C1_FailedProbeEstablishesNothing ==
    (last.event.kind = "Ping" /\ last.event.result = "Failure"
        /\ ~last.pre_established)
    => (~connection_established /\ partial_view = last.pre_view)

\* C2: handling a received message whose payload is not valid text does not
\* end the process: something is rendered in its place, the loop continues,
\* and the flag and the view are unchanged.
C2_InvalidPayloadIsContained ==
    (last.event.kind = "Message" /\ ~valid_utf8(last.event.data))
    => (pc = "loop" /\ exit = "none" /\ last.output # <<>>
        /\ FlagAndViewUnchanged)

\* C3: when a line typed while the flag is false parses as an address and
\* the dial request fails, the process does not end: the loop continues, and
\* the iteration issued that one dial request only.
C3_DialFailureIsContained ==
    (LineWhileNotEstablished /\ last.dialed # <<>> /\ ~last.dialed[1].ok)
    => (pc = "loop" /\ exit = "none" /\ Len(last.dialed) = 1)

\* C4: whenever a Subscribed(peer) event is handled, the peer is in the view
\* afterwards.
C4_SubscribedPeerJoinsView ==
    last.event.kind = "Subscribed" => last.event.peer \in partial_view

\* C5: once the input has ended, the loop eventually stops.
C5_EndOfInputStopsLoop == stdin_done ~> (pc = "done")

\* Two successive successful ping events for different peers, the first one
\* handled while the flag was false.
TwoSuccessivePings ==
    /\ prev.event.kind = "Ping" /\ prev.event.result = "Success"
    /\ ~prev.pre_established
    /\ last.event.kind = "Ping" /\ last.event.result = "Success"
    /\ last.event.peer # prev.event.peer

\* C6 as stated: after the first event the flag is true and P1 is in the
\* view; after the second the flag is true and the view holds P1 and P2.
C6_SecondPeerJoinsView ==
    TwoSuccessivePings
    => (/\ last.pre_established /\ prev.event.peer \in last.pre_view
        /\ connection_established
        /\ {prev.event.peer, last.event.peer} \subseteq partial_view)

\* C6 as amended: after the first event the flag is true and P1 is in the
\* view; after the second the flag is still true and the view is what it was
\* after the first: it holds P1 and not P2.
C6_SecondPeerLeavesView ==
    TwoSuccessivePings
    => (/\ last.pre_established /\ prev.event.peer \in last.pre_view
        /\ connection_established
        /\ partial_view = last.pre_view
        /\ prev.event.peer \in partial_view
        /\ last.event.peer \notin partial_view)

C6_Witness == TwoSuccessivePings /\ pc = "loop"

\* C7: handling a ping event while the flag is true leaves the flag true and
\* the view exactly as it was, whichever peer the event names.
C7_PingWhenEstablishedIsNoOp ==
    (last.event.kind = "Ping" /\ last.pre_established)
    => (connection_established /\ partial_view = last.pre_view)

C7_Witness ==
    /\ last.event.kind = "Ping" /\ last.event.result = "Success"
    /\ last.pre_established
    /\ last.event.peer \notin last.pre_view

\* C8: once the flag is true, it is true in every later state.
C8_FlagNeverResets ==
    [][connection_established => connection_established']_vars

C8_Witness ==
    /\ connection_established
    /\ prev.pre_established /\ prev.event.kind = "ReadError"
    /\ last.event.kind = "Ping" /\ last.event.result = "Failure"
    /\ last.event.peer \notin last.pre_view

\* C9: a line that parses as address A, handled while the flag is false,
\* issues exactly one dial request, for A, and no publish, and leaves the
\* flag false; the flag is found true after an iteration that began with it
\* false only when that iteration handled a liveness event.
C9_ValidAddressIsDialledOnce ==
    /\ (LineWhileNotEstablished /\ parse(last.event.line).ok)
       => (/\ Len(last.dialed) = 1
           /\ last.dialed[1].addr = parse(last.event.line).val
           /\ last.published = <<>>
           /\ ~connection_established)
    /\ (connection_established /\ ~last.pre_established)
       => last.event.kind = "Ping"

C9_Witness ==
    /\ LineWhileNotEstablished
    /\ last.event.line = "/tcp/01"
    /\ Len(last.dialed) = 1 /\ last.dialed[1].addr = Tcp(1)
    /\ pc = "loop"

\* C10: a line that does not parse as an address, handled while the flag is
\* false, issues no dial request and no publish, leaves the flag and the
\* view unchanged, and the loop goes on.
C10_NonAddressIsDiscarded ==
    (LineWhileNotEstablished /\ ~parse(last.event.line).ok)
    => (/\ last.dialed = <<>> /\ last.published = <<>>
        /\ FlagAndViewUnchanged
        /\ pc = "loop" /\ exit = "none")

C10_Witness ==
    /\ prev.event.kind = "Line" /\ ~prev.pre_established
    /\ ~parse(prev.event.line).ok
    /\ prev.dialed = <<>>
    /\ last.event.kind = "Ping"
    /\ connection_established

\* The last iteration handled a line typed while the flag was true.
LineWhileEstablished ==
    last.event.kind = "Line" /\ last.pre_established

\* C11: every line handled while the flag is true, whatever its text, is
\* published exactly once, with exactly its bytes, on the session's topic,
\* and is not dialled.
C11_LineIsPublishedOnce ==
    LineWhileEstablished
    => (/\ Len(last.published) = 1
        /\ last.published[1].topic = topic
        /\ last.published[1].data = as_bytes(last.event.line)
        /\ last.dialed = <<>>)

C11_Witness ==
    /\ LineWhileEstablished
    /\ last.event.line = ""
    /\ Len(last.published) = 1 /\ last.published[1].data = <<>>
    /\ prev.event.kind = "Line" /\ prev.pre_established
    /\ prev.event.line = "/tcp/1" /\ Len(prev.published) = 1

\* C12: if the startup subscription is rejected, the process has ended with
\* a non-zero status before the loop: it never listened, and no event was
\* ever handled (so no dial and no publish).
C12_RejectedSubscriptionEndsStartup ==
    subscription = "rejected"
    => (/\ pc = "done" /\ exit = "exit1"
        /\ ~listening
        /\ last = NoObs /\ prev = NoObs
        /\ ~connection_established /\ partial_view = {})

C12_Witness == subscription = "rejected" /\ pc = "done" /\ exit = "exit1"

\* C13: a read error on the input, in any session state, issues no dial and
\* no publish, leaves the flag and the view unchanged, and the loop goes on.
C13_ReadErrorIsRecoverable ==
    last.event.kind = "ReadError"
    => (/\ last.dialed = <<>> /\ last.published = <<>>
        /\ FlagAndViewUnchanged
        /\ pc = "loop" /\ exit = "none")

C13_Witness ==
    /\ prev.event.kind = "ReadError" /\ prev.pre_established
    /\ last.event.kind = "Line" /\ Len(last.published) = 1
    /\ pc = "loop"

\* C14: no step removes a peer from the view.
C14_ViewNeverShrinks == [][partial_view \subseteq partial_view']_vars

C14_Witness ==
    /\ partial_view # {}
    /\ prev.event.kind = "Ping" /\ prev.pre_view # {}
    /\ prev.event.peer \notin prev.pre_view
    /\ last.event.kind = "Subscribed" /\ last.pre_view = partial_view

IsMessageLine(o) == o.kind = "message"

\* C15: a received message with a valid-text payload, in any session state,
\* renders exactly one message, attributed to its source and carrying the
\* payload text, and issues no dial and no publish.
C15_MessageIsRenderedOnce ==
    (last.event.kind = "Message" /\ valid_utf8(last.event.data))
    => (/\ SelectSeq(last.output, IsMessageLine)
             = <<[kind |-> "message",
                  prompt |-> format_prompt(last.event.peer),
                  text |-> last.event.data]>>
        /\ last.dialed = <<>> /\ last.published = <<>>
        /\ pc = "loop")

C15_Witness ==
    /\ last.event.kind = "Message" /\ ~last.pre_established
    /\ last.event.data = <<195, 169>>
    /\ Len(last.output) = 2
    /\ prev.event.kind = "Message" /\ prev.pre_established = FALSE

\* C16: a step that changes the flag or the view is an iteration handling a
\* liveness or subscription event; every other step (NewListenAddr, received
\* messages, residual events, lines, read errors, end of input) leaves both
\* unchanged.
C16_OnlyPingAndSubscribedWrite ==
    [][(connection_established' # connection_established
          \/ partial_view' # partial_view)
       => (/\ last'.event.kind \in {"Ping", "Subscribed"}
           /\ last'.pre_established = connection_established
           /\ last'.pre_view = partial_view
           /\ prev' = last)]_vars

C16_Witness ==
    /\ stdin_done
    /\ prev.event.kind = "Message" /\ prev.pre_established
    /\ last.event.kind = "NewListenAddr"
    /\ connection_established /\ partial_view = prev.pre_view

\* C17: the flag is true exactly when the view is non-empty, and every
\* publish is issued with a non-empty view.
C17_FlagIffViewNonEmpty ==
    /\ connection_established <=> partial_view # {}
    /\ \A i \in 1..Len(last.published) : last.published[i].targets # {}

C17_Witness ==
    /\ LineWhileEstablished
    /\ Len(last.published) = 1
    /\ last.published[1].targets = partial_view /\ partial_view # {}

\* C18: the view holds at most one peer, the peer of the first ping event
\* handled, and is never changed once it is non-empty.
C18_ViewIsFirstPingPeer ==
    /\ Cardinality(partial_view) <= 1
    /\ partial_view = {first_ping[i] : i \in 1..Len(first_ping)}
    /\ last.pre_view # {} => partial_view = last.pre_view

C18_Witness ==
    /\ first_ping # <<>> /\ partial_view = {first_ping[1]}
    /\ prev.event.kind = "Ping" /\ prev.pre_established
    /\ prev.event.peer \notin partial_view
    /\ last.event.kind = "Subscribed"
    /\ last.event.peer \notin partial_view
    /\ last.event.peer # prev.event.peer

\* C19: however typed lines and swarm events interleave, a publish is
\* issued only by an iteration that began with the flag true and a dial only
\* by one that began with it false; a line is handled by the flag's value
\* when it is taken from stdin, so an address taken while the flag is true
\* is published as text and not dialled, even if it was typed earlier.
C19_ModeFollowsFlagAtProcessing ==
    /\ last.published # <<>> => last.pre_established
    /\ last.dialed # <<>> => ~last.pre_established
    /\ (LineWhileEstablished /\ parse(last.event.line).ok)
       => (/\ last.dialed = <<>>
           /\ Len(last.published) = 1
           /\ last.published[1].data = as_bytes(last.event.line))

\* An address was waiting in stdin when the first ping event was handled, and
\* was taken by the next iteration.
C19_Witness ==
    /\ prev.event.kind = "Ping" /\ ~prev.pre_established
    /\ prev.pre_line_ready
    /\ LineWhileEstablished /\ last.event.line = "/tcp/1"
    /\ last.dialed = <<>> /\ Len(last.published) = 1

\* Both nodes are in chat mode and each has the other in its view.
BothEstablished ==
    /\ connection_established /\ remote_peer_id \in partial_view
    /\ remote.connection_established /\ local_peer_id \in remote.partial_view

LocalHandledPing ==
    last.event.kind = "Ping" /\ last.event.peer = remote_peer_id

RemoteHandledPing == remote.event = "Ping"

\* C20: for two fresh nodes, if each node's ping event for the other is
\* eventually handled, then eventually both have the flag true and the other
\* node in their view; with ping events handled fairly, a connection leads
\* there unless one of the processes has ended; and every publish of either
\* node targets the other.
C20_HandshakeCompletes ==
    /\ (<>LocalHandledPing /\ <>RemoteHandledPing) => <>BothEstablished
    /\ (link = "connected")
          ~> (BothEstablished \/ pc = "done" \/ remote.pc = "done")
    /\ [](/\ last.published # <<>>
             => remote_peer_id \in last.published[1].targets
          /\ remote.published # <<>>
             => local_peer_id \in remote.published[1].targets)

C20_Witness ==
    /\ BothEstablished
    /\ link = "connected"
    /\ Len(last.dialed) = 0 /\ prev.event.kind = "Ping"
    /\ LineWhileEstablished
    /\ Len(last.published) = 1
    /\ remote_peer_id \in last.published[1].targets
    /\ remote.event = "Line"
    /\ Len(remote.published) = 1
    /\ local_peer_id \in remote.published[1].targets

=============================================================================
